---- MODULE Spec2Model ----
(***************************************************************************)
(* OraCareAiScan: the analysis server.  The repository holds several       *)
(* versions of the router (server/routes.ts, and the routers of            *)
(* unnamed/part_001 and unnamed/part_000) behind the same upload           *)
(* middleware (server/index.ts) and the same tables (db/schema.ts).  The   *)
(* deployed router is fixed at start (version); requests are handled       *)
(* concurrently and suspend at the identity provider, at the inference     *)
(* API and at the database.                                                *)
(***************************************************************************)
EXTENDS Integers, Sequences, FiniteSets, TLC

VARIABLES version, users, analyses, reqs, boot, tmpFiles, now, issued,
          ui, dash

vars == <<version, users, analyses, reqs, boot, tmpFiles, now, issued,
          ui, dash>>

\* the page in the browser: the ImageUpload component and the Dashboard
browser == <<ui, dash>>

\* the process and its configuration, fixed once the server listens
host == <<version, boot>>

(***************************************************************************)
(* Bounds of the model.                                                    *)
(***************************************************************************)
MaxReq == 1
MaxRows == 3
MaxTime == 2

Slots == 1..MaxReq
\* the connections of the server; Spec serves those of Slots
Pair == 1..(MaxReq + 1)
Ids == 1..(MaxRows + 1)

Versions == {"routes_ts", "part_001", "part_000"}
HasDb(v) == v \in {"routes_ts", "part_001"}

UIDs == {"uA", "uB"}

(***************************************************************************)
(* JavaScript values: undefined, null, strings, numbers.  Numbers are kept *)
(* in units of 1/10000, so that 0.95 is 9500 and 0.1235 is 1235.  A string *)
(* is a short literal (s) or, for a completion text, its atoms (a).        *)
(***************************************************************************)
Undef == [k |-> "undef", s |-> "", n |-> 0, a |-> <<>>]
Null == [k |-> "null", s |-> "", n |-> 0, a |-> <<>>]
Str(x) == [k |-> "str", s |-> x, n |-> 0, a |-> <<>>]
Num(x) == [k |-> "num", s |-> "", n |-> x, a |-> <<>>]

Falsy(v) == \/ v.k \in {"undef", "null"}
            \/ v.k = "str" /\ v.s = "" /\ v.a = <<>>
            \/ v.k = "num" /\ v.n = 0

OrElse(v, d) == IF Falsy(v) THEN d ELSE v

(***************************************************************************)
(* The tables of db/schema.ts.  A stored confidence is a decimal(4,3),     *)
(* kept in thousandths.                                                    *)
(***************************************************************************)
Columns == {"userId", "imageUrl", "result", "confidence", "explanation",
            "severity", "timestamp"}
NotNullColumns == {"userId", "imageUrl", "result", "confidence",
                   "explanation", "severity"}

NoValues == [c \in Columns |-> Undef]

\* the text of a numeric literal handed to the database as a string
NumericLiteral(s) == IF s = "0.95" THEN 9500 ELSE -1

IsNumeric(v) == \/ v.k = "num"
                \/ v.k = "str" /\ NumericLiteral(v.s) >= 0

ToNumeric(v) == IF v.k = "num" THEN v.n ELSE NumericLiteral(v.s)

\* numeric(4,3) rounds half away from zero to three decimals
Round3(n) == IF n >= 0 THEN (n + 5) \div 10 ELSE -((5 - n) \div 10)

\* numeric(4,3) holds absolute values below 10
DecimalFits(m) == m > -10000 /\ m < 10000

ToText(v) == IF v.k = "str" THEN v.s ELSE "(number)"

\* a text column that may hold a completion text keeps atoms
ToAtoms(v) == IF v.k = "str" /\ v.a # <<>> THEN v.a
              ELSE <<[t |-> "w", v |-> ToText(v), n |-> 0]>>

\* the checks of a table whose severity column accepts NULL
InsertViolationNoSeverity(vals, usrs) ==
  \/ \E c \in NotNullColumns \ {"severity"} : vals[c].k \in {"undef", "null"}
  \/ ~IsNumeric(vals["confidence"])
  \/ ~DecimalFits(Round3(ToNumeric(vals["confidence"])))
  \/ vals["userId"].s \notin usrs

\* the checks the database makes on an INSERT INTO analyses
InsertViolation(vals, usrs) ==
  \/ \E c \in NotNullColumns : vals[c].k \in {"undef", "null"}
  \/ ~IsNumeric(vals["confidence"])
  \/ ~DecimalFits(Round3(ToNumeric(vals["confidence"])))
  \/ vals["userId"].s \notin usrs

FreshId(tbl) == CHOOSE i \in Ids : i \notin {r.id : r \in tbl} /\
                   \A j \in Ids : j \notin {r.id : r \in tbl} => i <= j

MaxTimestamp(tbl) == IF tbl = {} THEN 0
                     ELSE CHOOSE t \in {r.timestamp : r \in tbl} :
                            \A r \in tbl : r.timestamp <= t

\* the row the database stores for an INSERT: id and timestamp default
StoredRow(vals, tbl) ==
  [id |-> FreshId(tbl),
   userId |-> vals["userId"].s,
   imageUrl |-> vals["imageUrl"].s,
   result |-> ToText(vals["result"]),
   confidence |-> Round3(ToNumeric(vals["confidence"])),
   explanation |-> ToAtoms(vals["explanation"]),
   severity |-> ToText(vals["severity"]),
   timestamp |-> IF vals["timestamp"].k = "num" THEN vals["timestamp"].n
                 ELSE MaxTimestamp(tbl) + 1]

(***************************************************************************)
(* Completion texts.  A text is a sequence of atoms whose concatenation is *)
(* the string: bare words ("w"), JSON string literals ("s", written with   *)
(* their quotes), number literals ("n"), the literal null ("l") and        *)
(* punctuation ("p").  Bare words are cut so that "Concerning" and         *)
(* "RESULT: " are atoms of their own.                                      *)
(***************************************************************************)
\* a completion text as a JavaScript string
Txt(text) == [k |-> "str", s |-> "", n |-> 0, a |-> text]

Word(x) == [t |-> "w", v |-> x, n |-> 0]
Quoted(x) == [t |-> "s", v |-> x, n |-> 0]
Numeral(x) == [t |-> "n", v |-> "", n |-> x]
Literal(x) == [t |-> "l", v |-> x, n |-> 0]
Punct(x) == [t |-> "p", v |-> x, n |-> 0]

TextVague == <<Word("RESULT: "), Word("Concerning"), Word(", something vague")>>
TextUnprefixed == <<Word("Concerning"), Word(" lesion on the tongue")>>
TextFine == <<Word("RESULT: "), Word("Normal"), Word(" looks fine")>>
TextJson == <<Punct("{"), Quoted("result"), Punct(":"), Quoted("Normal"), Punct(","),
              Quoted("confidence"), Punct(":"), Numeral(8000), Punct(","),
              Quoted("explanation"), Punct(":"), Quoted("clear"), Punct("}")>>
TextJsonFine == <<Punct("{"), Quoted("result"), Punct(":"), Quoted("Concerning"), Punct(","),
                  Quoted("confidence"), Punct(":"), Numeral(1235), Punct(","),
                  Quoted("explanation"), Punct(":"), Quoted("white patch"), Punct("}")>>
TextTruncated == <<Punct("{"), Quoted("result"), Punct(":"), Quoted("Concerning"), Punct(",")>>
TextPartial == <<Punct("{"), Quoted("result"), Punct(":"), Quoted("Concerning"), Punct("}")>>
TextNull == <<Literal("null")>>
TextNumber == <<Numeral(420000)>>
TextJsonWild == <<Punct("{"), Quoted("result"), Punct(":"), Quoted("Suspicious"), Punct(","),
                  Quoted("confidence"), Punct(":"), Numeral(75000), Punct(","),
                  Quoted("explanation"), Punct(":"), Quoted("unsure"), Punct("}")>>

Texts == {TextVague, TextUnprefixed, TextFine, TextJson, TextJsonFine,
          TextTruncated, TextPartial, TextNull, TextNumber, TextJsonWild}

\* String.prototype.includes, for a pattern given as a sequence of words
Includes(text, pat) ==
  \E i \in 1..Len(text) :
    /\ i + Len(pat) - 1 <= Len(text)
    /\ \A j \in 1..Len(pat) :
         /\ text[i + j - 1].v = pat[j]
         /\ \/ text[i + j - 1].t = "w"
            \/ text[i + j - 1].t = "s" /\ Len(pat) = 1

IsScalarAtom(a) == a.t \in {"n", "s"} \/ (a.t = "l" /\ a.v = "null")

ScalarOf(a) == IF a.t = "n" THEN Num(a.n)
               ELSE IF a.t = "s" THEN Str(a.v) ELSE Null

\* the members of an object literal: key : value , key : value ...
IsMembers(m) ==
  \/ Len(m) = 0
  \/ /\ Len(m) % 4 = 3
     /\ \A i \in 1..Len(m) :
          CASE i % 4 = 1 -> m[i].t = "s"
            [] i % 4 = 2 -> m[i] = Punct(":")
            [] i % 4 = 3 -> IsScalarAtom(m[i])
            [] OTHER -> m[i] = Punct(",")

IsObjectText(text) ==
  /\ Len(text) >= 2
  /\ text[1] = Punct("{")
  /\ text[Len(text)] = Punct("}")
  /\ IsMembers(SubSeq(text, 2, Len(text) - 1))

\* whether JSON.parse(text) returns rather than throws
JsonParses(text) ==
  \/ Len(text) = 1 /\ IsScalarAtom(text[1])
  \/ IsObjectText(text)

Keys(m) == {m[i].v : i \in {j \in 1..Len(m) : j % 4 = 1}}

\* the last member with the key wins
LastIndex(m, key) == CHOOSE i \in 1..Len(m) :
                       /\ i % 4 = 1 /\ m[i].v = key
                       /\ \A j \in 1..Len(m) :
                            (j % 4 = 1 /\ m[j].v = key) => j <= i

ObjectOf(m) == [key \in Keys(m) |-> ScalarOf(m[LastIndex(m, key) + 2])]

\* JSON.parse(text), for a text that parses: a scalar or an object
JsonParse(text) ==
  IF IsObjectText(text)
  THEN [k |-> "obj", o |-> ObjectOf(SubSeq(text, 2, Len(text) - 1))]
  ELSE [k |-> ScalarOf(text[1]).k, o |-> <<>>]

\* reading a property throws a TypeError on null and undefined
PropThrows(val) == val.k \in {"null", "undef"}

GetProp(val, key) == IF val.k = "obj" /\ key \in DOMAIN val.o
                     THEN val.o[key] ELSE Undef

(***************************************************************************)
(* Requests.  An Authorization header is a sequence of pieces of text, the *)
(* piece "Bearer " being the separator of verifyAuth's split.              *)
(***************************************************************************)
NoHeader == [present |-> FALSE, parts |-> <<>>]
Header(parts) == [present |-> TRUE, parts |-> parts]

Headers == {NoHeader,
            Header(<<"Bearer ", "tokA">>),
            Header(<<"Bearer ", "tokB">>),
            Header(<<"Bearer ", "forged">>),
            Header(<<"Bearer ">>),
            Header(<<"Basic dXNlcg==">>)}

\* req.headers.authorization?.split("Bearer ")[1], <<>> when it is undefined
\* or the empty string (both are falsy)
BearerToken(hdr) ==
  LET ps == hdr.parts
      seps == {i \in 1..Len(ps) : ps[i] = "Bearer "}
  IN IF ~hdr.present \/ seps = {} THEN <<>>
     ELSE LET first == CHOOSE i \in seps : \A j \in seps : i <= j
              later == {i \in seps : i > first}
              stop == IF later = {} THEN Len(ps) + 1
                      ELSE CHOOSE i \in later : \A j \in later : i <= j
          IN SubSeq(ps, first + 1, stop - 1)

\* the identity provider's answer to a token it can be asked about
TokenUid(token) == IF token = <<"tokA">> THEN "uA"
                   ELSE IF token = <<"tokB">> THEN "uB" ELSE ""

MaxFileSize == 5 * 1024 * 1024

NoFile == [present |-> FALSE, mimetype |-> <<"", "">>, size |-> 0]
File(type, subtype, size) ==
  [present |-> TRUE, mimetype |-> <<type, subtype>>, size |-> size]

Files == {NoFile,
          File("image", "jpeg", 1024),
          File("image", "png", MaxFileSize),
          File("application", "pdf", 1024),
          File("image", "jpeg", MaxFileSize + 1)}

validTypes == {<<"image", "jpeg">>, <<"image", "png">>, <<"image", "gif">>,
               <<"image", "webp">>}

\* `data:${image.mimetype};base64,${base64Image}`
DataUrl(mimetype) ==
  CASE mimetype = <<"image", "jpeg">> -> "data:image/jpeg;base64,AAAA"
    [] mimetype = <<"image", "png">> -> "data:image/png;base64,AAAA"
    [] mimetype = <<"image", "gif">> -> "data:image/gif;base64,AAAA"
    [] mimetype = <<"image", "webp">> -> "data:image/webp;base64,AAAA"
    [] OTHER -> "data:application/pdf;base64,AAAA"

\* a path segment that is no uuid is written 0
IdParams == Ids \cup {0}
IsUuid(id) == id \in Ids

BodyUserIds == {"", "uA"}

NoVerdict == [result |-> Undef, confidence |-> Undef, explanation |-> Undef]

IdleReq ==
  [pc |-> "idle", ep |-> "-", hdr |-> NoHeader, auth |-> "-", uid |-> "",
   file |-> NoFile, bodyUserId |-> "", idParam |-> 0, at |-> 0,
   completion |-> "-", text |-> <<>>, parsed |-> FALSE,
   vals |-> NoValues, mediaType |-> <<"", "">>,
   status |-> 0, error |-> "", rows |-> <<>>, verdict |-> NoVerdict,
   nInfer |-> 0, nDbRead |-> 0, nDbInsert |-> 0, nDbDelete |-> 0,
   nDeleted |-> 0, nRes |-> 0]

\* a connection the server does not accept
OffReq == [IdleReq EXCEPT !.pc = "off"]

\* res.status(status).json({ error }) and the end of the request
Fail(q, status, error) ==
  [q EXCEPT !.pc = "done", !.status = status, !.error = error,
            !.nRes = @ + 1]

(***************************************************************************)
(* Process start.  The repository holds two versions of the entry module:  *)
(* server/index.ts, and the one kept in db/schema.ts from line 43 on.      *)
(* The static imports of the entry module are evaluated before its body,   *)
(* so the router module runs its own checks before checkRequiredEnvVars.   *)
(***************************************************************************)
EnvNames == {"DATABASE_URL", "ANTHROPIC_API_KEY", "FIREBASE_SERVICE_ACCOUNT"}

Indexes == {"index_ts", "schema_ts"}

\* const required = [...] of checkRequiredEnvVars
required(index) ==
  IF index = "index_ts" THEN {"DATABASE_URL", "ANTHROPIC_API_KEY"}
  ELSE {"DATABASE_URL", "FIREBASE_SERVICE_ACCOUNT", "ANTHROPIC_API_KEY"}

\* fileUpload({ useTempFiles }) of the entry module
useTempFiles == boot.index = "schema_ts"

\* the modules a router imports that read the environment, in import order
RouterImports(v) ==
  CASE v = "routes_ts" -> <<"@db", "./lib/firebase", "router">>
    [] v = "part_001" -> <<"@db", "router">>
    [] OTHER -> <<"router">>

\* the name a module's evaluation throws about, "" when it does not throw
ModuleThrows(m, b) ==
  CASE m = "@db" ->
         IF b.dbEager /\ "DATABASE_URL" \notin b.env THEN "DATABASE_URL" ELSE ""
    [] m = "./lib/firebase" ->
         IF "FIREBASE_SERVICE_ACCOUNT" \notin b.env
         THEN "FIREBASE_SERVICE_ACCOUNT" ELSE ""
    [] OTHER ->
         IF "ANTHROPIC_API_KEY" \notin b.env THEN "ANTHROPIC_API_KEY" ELSE ""

\* the first module of the sequence that throws, "" when none does
FirstThrow(mods, b) ==
  LET bad == {i \in 1..Len(mods) : ModuleThrows(mods[i], b) # ""}
  IN IF bad = {} THEN ""
     ELSE ModuleThrows(mods[CHOOSE i \in bad : \A j \in bad : i <= j], b)

Listening ==
  [index |-> "index_ts", env |-> EnvNames, dbEager |-> FALSE,
   pc |-> "listening", reported |-> {}]

\* the imports of the entry module: ./routes, then @db
LoadModules ==
  /\ boot.pc = "start"
  /\ LET thrown == FirstThrow(RouterImports(version) \o <<"@db">>, boot)
     IN boot' = IF thrown # ""
                THEN [boot EXCEPT !.pc = "crashed", !.reported = {thrown}]
                ELSE [boot EXCEPT !.pc = "loaded"]
  /\ UNCHANGED <<version, browser, users, analyses, reqs, tmpFiles, now, issued>>

\* startServer: checkRequiredEnvVars, whose throw ends in process.exit(1)
checkRequiredEnvVars ==
  /\ boot.pc = "loaded"
  /\ LET missing == required(boot.index) \ boot.env
     IN boot' = IF missing # {}
                THEN [boot EXCEPT !.pc = "exited", !.reported = missing]
                ELSE [boot EXCEPT !.pc = "checked"]
  /\ UNCHANGED <<version, browser, users, analyses, reqs, tmpFiles, now, issued>>

\* startServer of server/index.ts: the test query of initializeDatabase
initializeDatabase ==
  /\ boot.pc = "checked" /\ boot.index = "index_ts"
  /\ \E up \in BOOLEAN :
       boot' = IF up THEN [boot EXCEPT !.pc = "dbready"]
               ELSE [boot EXCEPT !.pc = "dbfailed"]
  /\ UNCHANGED <<version, browser, users, analyses, reqs, tmpFiles, now, issued>>

\* startServer: middleware, registerRoutes, server.listen
Listen ==
  /\ \/ boot.pc = "dbready"
     \/ boot.pc = "checked" /\ boot.index = "schema_ts"
  /\ boot' = [boot EXCEPT !.pc = "listening"]
  /\ UNCHANGED <<version, browser, users, analyses, reqs, tmpFiles, now, issued>>

(***************************************************************************)
(* The upload middleware of server/index.ts: abortOnLimit answers 413      *)
(* before any route is reached.                                            *)
(***************************************************************************)
fileUploadAborts(q) ==
  q.ep = "POST" /\ q.file.present /\ q.file.size > MaxFileSize

\* with useTempFiles the middleware writes the upload to a file under
\* tempFileDir and hands its path to the route; an aborted upload is
\* cleaned up by the middleware
BuffersToDisk(q) ==
  useTempFiles /\ q.file.present /\ ~fileUploadAborts(q)

(***************************************************************************)
(* server/routes.ts                                                        *)
(***************************************************************************)
\* verifyAuth up to the call of the identity provider
verifyAuth(q) ==
  IF BearerToken(q.hdr) = <<>>
  THEN Fail([q EXCEPT !.auth = "missing"], 401, "Unauthorized")
  ELSE [q EXCEPT !.pc = "auth"]

\* the POST handler up to the inference call
RoutesPostStart(q) ==
  IF ~q.file.present THEN Fail(q, 500, "No image provided")
  ELSE IF q.uid = "" THEN Fail(q, 500, "User not authenticated")
  ELSE [q EXCEPT !.pc = "infer", !.nInfer = @ + 1,
                 !.mediaType = <<"image", "jpeg">>]

\* the result line of the POST handler
RoutesResult(text) ==
  IF Includes(text, <<"RESULT: ", "Concerning">>) THEN "Concerning"
  ELSE "Normal"

RoutesInsertValues(q, text) ==
  [NoValues EXCEPT !["userId"] = Str(q.uid),
                   !["imageUrl"] = Str("placeholder_url"),
                   !["result"] = Str(RoutesResult(text)),
                   !["confidence"] = Str("0.95"),
                   !["timestamp"] = Str("new Date()")]

\* the POST handler storing a placeholder verdict when the call failed
RoutesPostInferredSwallow(q, out) ==
  IF out.kind = "text"
  THEN [q EXCEPT !.pc = "db", !.nDbInsert = @ + 1, !.text = out.text,
                 !.vals = RoutesInsertValues(q, out.text)]
  ELSE [q EXCEPT !.pc = "db", !.nDbInsert = @ + 1,
                 !.vals = RoutesInsertValues(q, <<Word("Analysis unavailable")>>)]

\* the POST handler from the inference call's return to the insert
RoutesPostInferred(q, out) ==
  CASE out.kind = "err400" -> Fail(q, 500, "400 invalid_request_error")
    [] out.kind = "err500" -> Fail(q, 500, "Connection error.")
    [] out.kind = "empty" ->
         Fail(q, 500, "Cannot read properties of undefined")
    [] out.kind = "nontext" ->
         [q EXCEPT !.pc = "db", !.nDbInsert = @ + 1,
                   !.vals = RoutesInsertValues(q, <<Word("Analysis unavailable")>>)]
    [] OTHER ->
         [q EXCEPT !.pc = "db", !.nDbInsert = @ + 1, !.text = out.text,
                   !.vals = RoutesInsertValues(q, out.text)]

RoutesHistoryStart(q) ==
  IF q.uid = "" THEN Fail(q, 500, "User not authenticated")
  ELSE [q EXCEPT !.pc = "db", !.nDbRead = @ + 1]

RoutesDeleteStart(q) ==
  IF q.uid = "" THEN Fail(q, 500, "User not authenticated")
  ELSE [q EXCEPT !.pc = "db", !.nDbDelete = @ + 1]

\* the delete without its owner condition
DeleteWhereIdOnly(row, q) == row.id = q.idParam

\* where: and(eq(analyses.id, req.params.id), eq(analyses.userId, uid))
RoutesDeleteWhere(row, q) == row.id = q.idParam /\ row.userId = q.uid

\* where: eq(analyses.userId, req.user.uid)
RoutesHistoryWhere(row, q) == row.userId = q.uid

\* orderBy: [analyses.timestamp]
RoutesHistoryOrder(a, b) == a.timestamp <= b.timestamp

(***************************************************************************)
(* unnamed/part_001, first router: no auth, JSON verdict, stored           *)
(***************************************************************************)
Part001PostStart(q) ==
  IF ~q.file.present THEN Fail(q, 400, "No image file received")
  ELSE IF q.file.mimetype \notin validTypes
  THEN Fail(q, 400, "Invalid file type. Supported types: ...")
  ELSE IF q.file.size > 5 * 1024 * 1024
  THEN Fail(q, 400, "File too large. Maximum size is 5MB")
  ELSE [q EXCEPT !.pc = "infer", !.nInfer = @ + 1,
                 !.mediaType = q.file.mimetype]

\* analysisResult: JSON.parse, or the keyword fallback when it throws
analysisResult(text) ==
  IF JsonParses(text) THEN JsonParse(text)
  ELSE [k |-> "obj",
        o |-> [key \in {"result", "confidence", "explanation"} |->
                 CASE key = "result" ->
                        IF Includes(text, <<"Concerning">>)
                        THEN Str("Concerning") ELSE Str("Normal")
                   [] key = "confidence" -> Num(9500)
                   [] OTHER -> Txt(text)]]

\* the three properties read off analysisResult
VerdictOf(text) ==
  [result |-> GetProp(analysisResult(text), "result"),
   confidence |-> GetProp(analysisResult(text), "confidence"),
   explanation |-> GetProp(analysisResult(text), "explanation")]

Part001InsertValues(q, text) ==
  [NoValues EXCEPT !["userId"] = OrElse(Str(q.bodyUserId), Str("anonymous")),
                   !["imageUrl"] = Str(DataUrl(q.file.mimetype)),
                   !["result"] = VerdictOf(text).result,
                   !["confidence"] = VerdictOf(text).confidence,
                   !["explanation"] = VerdictOf(text).explanation]

Part001PostInferred(q, out) ==
  CASE out.kind = "err400" -> Fail(q, 400, "400 invalid_request_error")
    [] out.kind = "err500" -> Fail(q, 400, "Connection error.")
    [] out.kind = "empty" -> Fail(q, 400, "Empty response from Anthropic API")
    [] out.kind = "nontext" -> Fail(q, 400, "Invalid response format from API")
    [] PropThrows(analysisResult(out.text)) ->
         Fail([q EXCEPT !.text = out.text, !.parsed = TRUE], 400,
              "Cannot read properties of null")
    [] OTHER ->
         [q EXCEPT !.pc = "db", !.nDbInsert = @ + 1, !.text = out.text,
                   !.parsed = JsonParses(out.text),
                   !.verdict = VerdictOf(out.text),
                   !.vals = Part001InsertValues(q, out.text)]

Part001HistoryStart(q) == [q EXCEPT !.pc = "db", !.nDbRead = @ + 1]

\* findMany without a where clause
Part001HistoryWhere(row, q) == TRUE

\* orderBy: desc(analyses.timestamp)
Part001HistoryOrder(a, b) == a.timestamp >= b.timestamp

(***************************************************************************)
(* unnamed/part_000: no auth, JSON verdict, nothing stored                 *)
(***************************************************************************)
Part000PostStart(q) ==
  IF ~q.file.present THEN Fail(q, 400, "No image provided")
  ELSE IF q.file.mimetype[1] # "image"
  THEN Fail(q, 400, "Invalid file type. Please upload an image.")
  ELSE IF q.file.size > 10 * 1024 * 1024
  THEN Fail(q, 400, "File too large. Maximum size is 10MB.")
  ELSE IF q.file.size = 0 \/ useTempFiles
  THEN Fail(q, 400, "Failed to process image")
  ELSE IF q.file.mimetype \notin validTypes
  THEN Fail(q, 400, "Invalid image format.")
  ELSE [q EXCEPT !.pc = "infer", !.nInfer = @ + 1,
                 !.mediaType = q.file.mimetype]

\* the handler that answers with id: 'temp-' + Date.now()
ReadsClock(v) == v = "part_000"

\* the ids answered so far, and those answered more than once
Issue(iss, id) ==
  [once |-> iss.once \cup {id},
   twice |-> IF id \in iss.once THEN iss.twice \cup {id} ELSE iss.twice]

\* the answer built outside the try block: the TypeError ends the handler
\* and nothing is sent
Part000RespondUncaught(q, text) ==
  IF PropThrows(analysisResult(text))
  THEN [q EXCEPT !.pc = "done", !.text = text, !.parsed = TRUE]
  ELSE [q EXCEPT !.pc = "done", !.status = 200, !.text = text,
                 !.parsed = JsonParses(text), !.verdict = VerdictOf(text),
                 !.nRes = @ + 1]

\* res.json({...}) inside the try block: a TypeError is answered by the catch
Part000Respond(q, text) ==
  IF PropThrows(analysisResult(text))
  THEN Fail([q EXCEPT !.text = text, !.parsed = TRUE], 500,
            "Cannot read properties of null")
  ELSE [q EXCEPT !.pc = "done", !.status = 200, !.text = text,
                 !.parsed = JsonParses(text), !.verdict = VerdictOf(text),
                 !.nRes = @ + 1]

Part000PostInferred(q, out) ==
  CASE out.kind = "err400" ->
         Fail(q, 400, "Invalid image format or content.")
    [] out.kind = "err500" -> Fail(q, 500, "Connection error.")
    [] out.kind = "empty" -> Fail(q, 500, "Empty response from Anthropic API")
    [] out.kind = "nontext" ->
         Part000Respond(q, <<Word("Analysis unavailable")>>)
    [] OTHER -> Part000Respond(q, out.text)

(***************************************************************************)
(* The state: the deployed router, the two tables and the requests.        *)
(***************************************************************************)
Routed(v) == CASE v = "routes_ts" -> {"POST", "GET", "DELETE"}
               [] v = "part_001" -> {"POST", "GET"}
               [] OTHER -> {"POST"}

\* creation times of the rows present at start: distinct, not in id order
StartTime(i) == IF i % 2 = 1 THEN i + 1 ELSE i - 1

StartRow(i, owner) ==
  [id |-> i, userId |-> owner, imageUrl |-> "placeholder_url",
   result |-> IF i % 2 = 1 THEN "Concerning" ELSE "Normal",
   confidence |-> 950, explanation |-> <<Word("stored finding")>>,
   severity |-> "low", timestamp |-> StartTime(i)]

StartTables(usrs) ==
  UNION {{ {StartRow(i, owner[i]) : i \in 1..n} : owner \in [1..n -> usrs] }
         : n \in 0..MaxRows}

(***************************************************************************)
(* The browser.  client/src/components/ImageUpload.tsx and the versions of *)
(* the component kept in unnamed/part_004, part_005 and part_007 are one   *)
(* component (ui.component says which is built into the page); the         *)
(* Dashboard page lists the ResultCards of unnamed/part_009.  Event        *)
(* handlers run to their first await in the step of the event; what        *)
(* follows an await runs in a later step, when the awaited call returns.   *)
(***************************************************************************)
MaxStreams == 2

Components == {"ImageUpload_tsx", "part_004", "part_005", "part_007"}

\* the component with showCamera and a camera dialog
HasDialog(c) == c = "part_004"

\* the components whose only handle on the stream is videoRef.current.srcObject
KeepsSrcObjectOnly(c) == c \in {"part_005", "part_007"}

\* auth.onAuthStateChanged of the Dashboard keeps a user signed in
SignedIn == "uA"
IdToken == "tokA"

\* useState and useRef of the component at its first render
ImageUpload(c) ==
  [component |-> c, mounted |-> TRUE,
   selectedImage |-> NoFile, previewUrl |-> FALSE,
   isUploading |-> FALSE, progress |-> 0,
   isCameraActive |-> FALSE, isVideoReady |-> FALSE,
   streamRef |-> 0, srcObject |-> 0,
   wanted |-> FALSE, cam |-> "idle", attempt |-> 0, device |-> "-",
   blob |-> "none",
   up |-> "idle", net |-> "-", status |-> 0, toast |-> "",
   live |-> {}]

\* no page is open
NoPage == [ImageUpload("-") EXCEPT !.mounted = FALSE]

\* the files a user can pick
PickableFiles == (Files \ {NoFile}) \cup {File("image", "png", 0)}

\* const validTypes of handleImageSelect
validTypesOfClient == {<<"image", "jpeg">>, <<"image", "png">>,
                       <<"image", "gif">>, <<"image", "webp">>}

\* const maxSize of handleImageSelect
maxSize == 5 * 1024 * 1024

\* videoRef.current is set while the <video> element is rendered
HasVideo(u) == u.mounted /\ u.isCameraActive

\* the render after a handler: the <video> element goes with its srcObject
Render(u) == IF HasVideo(u) THEN u ELSE [u EXCEPT !.srcObject = 0]

Toast(u, text) == [u EXCEPT !.toast = text]

\* stream.getTracks().forEach(track => track.stop())
StopTracks(u, s) == [u EXCEPT !.live = @ \ {s}]

\* the stream a resolving getUserMedia hands over
FreshStream(u) ==
  CHOOSE s \in 1..MaxStreams :
    /\ s \notin u.live \cup {u.streamRef, u.srcObject}
    /\ \A t \in 1..MaxStreams :
         t \notin u.live \cup {u.streamRef, u.srcObject} => s <= t

CanObtain(u) ==
  \E s \in 1..MaxStreams : s \notin u.live \cup {u.streamRef, u.srcObject}

Obtain(u) == [u EXCEPT !.live = @ \cup {FreshStream(u)}, !.device = "ok"]

\* the browser or the device refused a call of the camera API
Refused(u) == [u EXCEPT !.device = "refused"]

handleImageSelect(u, file) ==
  IF file.mimetype \notin validTypesOfClient THEN Toast(u, "Invalid File Type")
  ELSE IF file.size > maxSize THEN Toast(u, "File Too Large")
  ELSE [u EXCEPT !.selectedImage = file, !.previewUrl = TRUE]

stopCamera(u) ==
  IF KeepsSrcObjectOnly(u.component)
  THEN [(IF HasVideo(u) /\ u.srcObject # 0
         THEN StopTracks(u, u.srcObject) ELSE u)
        EXCEPT !.srcObject = 0, !.isCameraActive = FALSE]
  ELSE IF u.streamRef # 0
  THEN [StopTracks(u, u.streamRef)
        EXCEPT !.streamRef = 0, !.isCameraActive = FALSE, !.srcObject = 0]
  ELSE u

\* the catch block of startCamera / handleCameraCapture
CameraFailed(u, text) ==
  Render([Toast(u, text)
          EXCEPT !.cam = "idle", !.attempt = 0,
                 !.isCameraActive =
                   IF KeepsSrcObjectOnly(u.component) THEN FALSE ELSE @])

GenericCameraError ==
  "Failed to access camera. Please check your camera connection and try again."

\* startCamera / handleCameraCapture up to the first await; supported says
\* whether navigator.mediaDevices.getUserMedia exists
startCamera(u, supported) ==
  CASE u.component = "ImageUpload_tsx" ->
         IF ~supported
         THEN CameraFailed(Refused(u),
                           "Camera API is not supported in this browser")
         ELSE IF ~HasVideo(u) THEN CameraFailed(u, GenericCameraError)
         ELSE [u EXCEPT !.cam = "permission"]
    [] u.component = "part_005" ->
         IF ~HasVideo(u)
         THEN CameraFailed(u, "Video element not available. Please try refreshing the page.")
         ELSE IF ~supported
         THEN CameraFailed(Refused(u),
                           "Camera API not supported in this browser")
         ELSE [(IF u.srcObject # 0 THEN StopTracks(u, u.srcObject) ELSE u)
               EXCEPT !.srcObject = 0, !.cam = "stream"]
    [] u.component = "part_007" ->
         IF ~HasVideo(u) \/ ~u.isVideoReady
         THEN CameraFailed(u, "Camera system not ready. Please wait a moment and try again.")
         ELSE IF ~supported
         THEN CameraFailed(Refused(u), "Cannot read properties of undefined")
         ELSE [u EXCEPT !.cam = "enumerate"]
    [] OTHER ->
         IF ~supported
         THEN CameraFailed(Refused(u),
                           "Failed to access camera. Please check permissions.")
         ELSE [u EXCEPT !.cam = "stream"]

\* after await navigator.mediaDevices.enumerateDevices(); ok says whether it
\* returned with a videoinput device
devicesEnumerated(u, ok) ==
  IF ~ok
  THEN CameraFailed(Refused(u), IF u.component = "part_007"
                                THEN "No video devices found"
                                ELSE GenericCameraError)
  ELSE IF ~HasVideo(u) THEN CameraFailed(u, GenericCameraError)
  ELSE IF u.component = "part_007"
  THEN [(IF u.srcObject # 0 THEN StopTracks(u, u.srcObject) ELSE u)
        EXCEPT !.srcObject = 0, !.cam = "stream"]
  ELSE [(IF u.srcObject # 0
         THEN StopTracks(StopTracks(u, u.streamRef), u.srcObject)
         ELSE StopTracks(u, u.streamRef))
        EXCEPT !.streamRef = 0, !.srcObject = 0, !.cam = "stream",
               !.attempt = 1]

\* after await navigator.mediaDevices.getUserMedia(...) for the stream to show
streamObtained(u, ok) ==
  CASE u.component = "ImageUpload_tsx" ->
         IF ~ok
         THEN IF u.attempt < 3 THEN [u EXCEPT !.attempt = @ + 1]
              ELSE CameraFailed(Refused(u), GenericCameraError)
         ELSE IF ~HasVideo(u) THEN CameraFailed(Obtain(u), GenericCameraError)
         ELSE [Obtain(u) EXCEPT !.srcObject = FreshStream(u),
                                !.streamRef = FreshStream(u),
                                !.cam = "metadata", !.attempt = 0]
    [] KeepsSrcObjectOnly(u.component) ->
         IF ~ok
         THEN CameraFailed(Refused(u), "Camera access denied.")
         ELSE IF ~HasVideo(u)
         THEN CameraFailed([u EXCEPT !.device = "ok"],
                           "Video element lost during initialization")
         ELSE [Obtain(u) EXCEPT !.srcObject = FreshStream(u), !.cam = "play"]
    [] OTHER ->
         IF ~ok
         THEN CameraFailed(Refused(u),
                           "Failed to access camera. Please check permissions.")
         ELSE [Obtain(u) EXCEPT !.streamRef = FreshStream(u),
                                !.srcObject =
                                  IF HasVideo(u) THEN FreshStream(u) ELSE @,
                                !.isCameraActive = TRUE, !.cam = "idle"]

\* after await videoRef.current.play()
played(u, ok) ==
  IF ok THEN [u EXCEPT !.isCameraActive = TRUE, !.cam = "idle"]
  ELSE IF KeepsSrcObjectOnly(u.component)
  THEN CameraFailed(StopTracks(Refused(u), u.srcObject),
                    "Failed to start video playback")
  ELSE [Toast(Refused(u), "Failed to start video preview. Please try again.")
        EXCEPT !.cam = "idle"]

\* the camera handler when the call it awaits returns; ok says whether the
\* call resolved
cameraStep(u, ok) ==
  CASE u.cam = "permission" ->
         IF ok THEN [Obtain(u) EXCEPT !.cam = "enumerate"]
         ELSE CameraFailed(Refused(u), GenericCameraError)
    [] u.cam = "enumerate" -> devicesEnumerated(u, ok)
    [] u.cam = "stream" -> streamObtained(u, ok)
    [] u.cam = "metadata" ->
         IF HasVideo(u) THEN [u EXCEPT !.cam = "play"]
         ELSE [u EXCEPT !.cam = "idle"]
    [] OTHER -> played(u, ok)

\* the catch and finally blocks of handleAnalyze, without the finally block
analyzeFailedNoFinally(u, text) ==
  [Toast(u, text) EXCEPT !.up = "idle", !.net = "-"]

\* the catch and finally blocks of handleAnalyze
analyzeFailed(u, text) ==
  [Toast(u, text) EXCEPT !.isUploading = FALSE, !.progress = 0,
                         !.up = "idle", !.net = "-"]

\* whether the component reads the error body before it throws
ReadsErrorBody(c) == c \in {"ImageUpload_tsx", "part_004"}

\* handleAnalyze from the response of fetch on
responded(u, status) ==
  IF status \in 200..299
  THEN [u EXCEPT !.status = status, !.progress = 75, !.up = "json"]
  ELSE IF ReadsErrorBody(u.component)
  THEN [u EXCEPT !.status = status, !.up = "errjson"]
  ELSE analyzeFailed([u EXCEPT !.status = status], "Analysis Failed")

\* handleAnalyze after await response.json() of a 2xx response
analyzed(u) ==
  [Toast(u, "Analysis Complete")
   EXCEPT !.selectedImage = NoFile, !.previewUrl = FALSE,
          !.isUploading = FALSE, !.progress = 0, !.up = "idle", !.net = "-"]

\* the cleanup of the effect that runs on unmount
cleanup(u) ==
  IF KeepsSrcObjectOnly(u.component)
  THEN IF u.srcObject # 0 THEN StopTracks(u, u.srcObject) ELSE u
  ELSE IF u.streamRef # 0 THEN StopTracks(u, u.streamRef) ELSE u

\* the Dashboard with its cards, and the handleDelete of one card
Dashboard(cards) ==
  [cards |-> cards, del |-> "idle", net |-> "-", id |-> 0, status |-> 0,
   log |-> ""]

NoDashboard == Dashboard({})

\* the browser's request as it leaves fetch(url, { method, body })
Fetched(ep, file, id) ==
  [IdleReq EXCEPT !.ep = ep, !.hdr = NoHeader, !.file = file,
                  !.idParam = id, !.at = now]

Init ==
  /\ version \in Versions
  /\ users \in IF HasDb(version) THEN {UIDs, {"uA"}} ELSE {UIDs}
  /\ analyses \in IF HasDb(version) THEN StartTables(users) ELSE {{}}
  /\ reqs = [r \in Pair |-> IF r \in Slots THEN IdleReq ELSE OffReq]
  /\ boot = Listening
  /\ tmpFiles = {}
  /\ now = 0
  /\ issued = [once |-> {}, twice |-> {}]
  /\ ui = NoPage /\ dash = NoDashboard

\* the route handler up to its first await
HandlerStart(v, q) ==
  CASE v = "routes_ts" /\ q.ep = "POST" -> RoutesPostStart(q)
    [] v = "routes_ts" /\ q.ep = "GET" -> RoutesHistoryStart(q)
    [] v = "routes_ts" /\ q.ep = "DELETE" -> RoutesDeleteStart(q)
    [] v = "part_001" /\ q.ep = "POST" -> Part001PostStart(q)
    [] v = "part_001" /\ q.ep = "GET" -> Part001HistoryStart(q)
    [] OTHER -> Part000PostStart(q)

(***************************************************************************)
(* Slot 1 is the request under observation: it takes every input, and its  *)
(* record is kept once it is answered, until the connection closes.  The   *)
(* other slots are requests handled concurrently by the same code; they    *)
(* draw their inputs from smaller sets and their record is dropped as soon *)
(* as they are answered.                                                   *)
(***************************************************************************)
Observed(r) == r = 1

Answered(r, q) == IF q.pc = "done" /\ ~Observed(r) THEN IdleReq ELSE q

Started(q) == q.pc # "idle"
Done(q) == q.pc = "done"

HeadersOf(r) ==
  IF ~Observed(r)
  THEN {Header(<<"Bearer ", "tokA">>), Header(<<"Bearer ", "tokB">>)}
  ELSE IF version = "routes_ts" THEN Headers
  ELSE {NoHeader}

FilesOf(r) == IF Observed(r) THEN Files ELSE {File("image", "jpeg", 1024)}

BodyUserIdsOf(r) ==
  IF Observed(r) /\ version = "part_001" THEN BodyUserIds ELSE {""}

TextsOf(r) == IF Observed(r) THEN Texts ELSE {TextVague}

IdParamsOf(r) == IF Observed(r) THEN IdParams ELSE 1..MaxRows

\* the request once the upload middleware and the synchronous part of
\* verifyAuth or of the handler have run
Arrived(q) ==
  IF fileUploadAborts(q)
  THEN Fail(q, 413, "File size limit has been reached (5MB)")
  ELSE IF version = "routes_ts" THEN verifyAuth(q)
  ELSE HandlerStart(version, q)

\* a request arrives: upload middleware, then verifyAuth or the handler
Receive(r) ==
  /\ reqs[r].pc = "idle"
  /\ \E ep \in Routed(version), hdr \in HeadersOf(r) :
     \E file \in IF ep = "POST" THEN FilesOf(r) ELSE {NoFile},
        body \in IF ep = "POST" THEN BodyUserIdsOf(r) ELSE {""},
        id \in IF ep = "DELETE" THEN IdParamsOf(r) ELSE {0} :
       /\ LET q == [IdleReq EXCEPT !.ep = ep, !.hdr = hdr, !.file = file,
                                   !.bodyUserId = body, !.idParam = id,
                                   !.at = now]
          IN reqs' = [reqs EXCEPT ![r] = Answered(r, Arrived(q))]
          /\ tmpFiles' = IF BuffersToDisk(q) THEN tmpFiles \cup {r}
                         ELSE tmpFiles
  /\ UNCHANGED <<host, browser, users, analyses, now, issued>>

\* auth.verifyIdToken returns or throws; verifyAuth calls next() or answers
VerifyIdTokenReturn(r) ==
  /\ reqs[r].pc = "auth"
  /\ \E outcome \in {"resolve", "reject", "error"} :
       LET q == reqs[r]
           uid == TokenUid(BearerToken(q.hdr))
       IN /\ outcome = "resolve" => uid # ""
          /\ outcome = "reject" => uid = ""
          /\ reqs' = [reqs EXCEPT ![r] = Answered(r,
               IF outcome = "resolve"
               THEN HandlerStart(version,
                                 [q EXCEPT !.auth = "ok", !.uid = uid])
               ELSE Fail([q EXCEPT !.auth = IF outcome = "reject"
                                            THEN "rejected" ELSE "error"],
                         401, "Unauthorized"))]
  /\ UNCHANGED <<host, browser, users, analyses, tmpFiles, now, issued>>

InferenceOutcomes(r) ==
  {[kind |-> k, text |-> <<>>] : k \in {"err400", "err500", "empty", "nontext"}}
    \cup {[kind |-> "text", text |-> t] : t \in TextsOf(r)}

\* anthropic.messages.create returns or throws, a round trip over the
\* network that takes more than a millisecond
InferenceReturn(r) ==
  /\ reqs[r].pc = "infer"
  /\ ReadsClock(version) => now > reqs[r].at
  /\ \E out \in InferenceOutcomes(r) :
       LET q == [CASE version = "routes_ts" -> RoutesPostInferred(reqs[r], out)
                   [] version = "part_001" -> Part001PostInferred(reqs[r], out)
                   [] OTHER -> Part000PostInferred(reqs[r], out)
                 EXCEPT !.completion = out.kind]
       IN /\ reqs' = [reqs EXCEPT ![r] = Answered(r, q)]
          /\ issued' = IF version = "part_000" /\ q.status = 200
                       THEN Issue(issued, now) ELSE issued
  /\ UNCHANGED <<host, browser, users, analyses, tmpFiles, now>>

\* the orderBy of the version's history query
HistoryOrder(v, a, b) ==
  IF v = "routes_ts" THEN RoutesHistoryOrder(a, b) ELSE Part001HistoryOrder(a, b)

\* the orders in which the version's sorted query may return the rows found
Orderings(found, v) ==
  {seq \in [1..Cardinality(found) -> found] :
     /\ \A i, j \in 1..Cardinality(found) : i # j => seq[i] # seq[j]
     /\ \A i, j \in 1..Cardinality(found) :
          i < j => HistoryOrder(v, seq[i], seq[j])}

History(v, tbl, q) ==
  IF v = "routes_ts"
  THEN Orderings({row \in tbl : RoutesHistoryWhere(row, q)}, v)
  ELSE Orderings({row \in tbl : Part001HistoryWhere(row, q)}, v)

\* db.query.analyses.findMany returns or throws
DbHistoryReturn(r) ==
  /\ reqs[r].pc = "db" /\ reqs[r].ep = "GET"
  /\ \E up \in BOOLEAN :
       IF up
       THEN \E seq \in History(version, analyses, reqs[r]) :
              reqs' = [reqs EXCEPT ![r] = Answered(r,
                [@ EXCEPT !.pc = "done", !.status = 200, !.rows = seq,
                          !.nRes = @ + 1])]
       ELSE reqs' = [reqs EXCEPT ![r] = Answered(r,
              Fail(@, 500, IF version = "routes_ts"
                           THEN "connect ECONNREFUSED"
                           ELSE "Failed to fetch analysis history"))]
  /\ UNCHANGED <<host, browser, users, analyses, tmpFiles, now, issued>>

\* a soft delete: the rows found stay in the table, marked
MarkDeleted(tbl, gone) ==
  (tbl \ gone) \cup {[row EXCEPT !.severity = "deleted"] : row \in gone}

\* db.delete(analyses): the rows found leave the table
DeleteRows(tbl, gone) == tbl \ gone

\* db.delete(analyses).where(...) returns or throws
DbDeleteReturn(r) ==
  /\ reqs[r].pc = "db" /\ reqs[r].ep = "DELETE"
  /\ \E up \in BOOLEAN :
       LET q == reqs[r]
           gone == {row \in analyses : RoutesDeleteWhere(row, q)}
       IN IF up /\ IsUuid(q.idParam)
          THEN /\ analyses' = DeleteRows(analyses, gone)
               /\ reqs' = [reqs EXCEPT ![r] = Answered(r,
                    [q EXCEPT !.pc = "done", !.status = 204,
                              !.nDeleted = Cardinality(gone),
                              !.nRes = @ + 1])]
          ELSE /\ analyses' = analyses
               /\ reqs' = [reqs EXCEPT ![r] = Answered(r,
                    Fail(q, 500, IF up THEN "invalid input syntax for type uuid"
                                 ELSE "connect ECONNREFUSED"))]
  /\ UNCHANGED <<host, browser, users, tmpFiles, now, issued>>

\* db.insert(analyses).values(...).returning() returns or throws
DbInsertReturn(r) ==
  /\ reqs[r].pc = "db" /\ reqs[r].ep = "POST"
  /\ \E up \in BOOLEAN :
       LET q == reqs[r]
       IN IF up /\ ~InsertViolation(q.vals, users)
          THEN /\ \E i \in Ids : i \notin {row.id : row \in analyses}
               /\ analyses' = analyses \cup {StoredRow(q.vals, analyses)}
               /\ reqs' = [reqs EXCEPT ![r] = Answered(r,
                    [q EXCEPT !.pc = "done", !.status = 200,
                              !.rows = <<StoredRow(q.vals, analyses)>>,
                              !.nRes = @ + 1])]
          ELSE /\ analyses' = analyses
               /\ reqs' = [reqs EXCEPT ![r] = Answered(r,
                    Fail(q, IF version = "routes_ts" THEN 500 ELSE 400,
                         IF up THEN "violates a constraint of analyses"
                         ELSE "connect ECONNREFUSED"))]
  /\ UNCHANGED <<host, browser, users, tmpFiles, now, issued>>

\* a millisecond passes on the clock read by Date.now()
Tick ==
  /\ ReadsClock(version)
  /\ now < MaxTime
  /\ now' = now + 1
  /\ UNCHANGED <<host, browser, users, analyses, reqs, tmpFiles, issued>>

\* the connection of an answered request is closed
Close(r) ==
  /\ reqs[r].pc = "done"
  /\ reqs' = [reqs EXCEPT ![r] = IdleReq]
  /\ UNCHANGED <<host, browser, users, analyses, tmpFiles, now, issued>>

Next ==
  \E r \in Pair :
    \/ Receive(r)
    \/ VerifyIdTokenReturn(r)
    \/ InferenceReturn(r)
    \/ DbHistoryReturn(r)
    \/ DbDeleteReturn(r)
    \/ DbInsertReturn(r)
    \/ Close(r)
    \/ Tick

Spec == Init /\ [][Next]_vars

\* process start, for each router, entry module and environment
InitStart ==
  /\ version \in Versions
  /\ users = {} /\ analyses = {}
  /\ reqs = [r \in Pair |-> IF r \in Slots THEN IdleReq ELSE OffReq]
  /\ \E index \in Indexes, env \in SUBSET EnvNames, eager \in BOOLEAN :
       boot = [index |-> index, env |-> env, dbEager |-> eager,
               pc |-> "start", reported |-> {}]
  /\ tmpFiles = {}
  /\ now = 0
  /\ issued = [once |-> {}, twice |-> {}]
  /\ ui = NoPage /\ dash = NoDashboard

NextStart ==
  \/ LoadModules
  \/ checkRequiredEnvVars
  \/ initializeDatabase
  \/ Listen

SpecStart == InitStart /\ [][NextStart]_vars

\* the server started from the entry module that buffers uploads to disk;
\* the event loop runs a handler whenever one of its awaited calls returns
InitTmp ==
  /\ version \in Versions
  /\ users = UIDs /\ analyses = {}
  /\ reqs = [r \in Pair |-> IF r \in Slots THEN IdleReq ELSE OffReq]
  /\ boot = [Listening EXCEPT !.index = "schema_ts"]
  /\ tmpFiles = {}
  /\ now = 0
  /\ issued = [once |-> {}, twice |-> {}]
  /\ ui = NoPage /\ dash = NoDashboard

SpecTmp == InitTmp /\ [][Next]_vars /\ WF_vars(Next)

\* one request more in flight than in Spec, on empty tables
InitPair ==
  /\ version \in Versions
  /\ users = UIDs /\ analyses = {}
  /\ reqs = [r \in Pair |-> IdleReq]
  /\ boot = Listening
  /\ tmpFiles = {}
  /\ now = 0
  /\ issued = [once |-> {}, twice |-> {}]
  /\ ui = NoPage /\ dash = NoDashboard

SpecPair == InitPair /\ [][Next]_vars

\* the identity provider and the database answer every call; the inference
\* API may stay silent
ProviderOrDbReturn ==
  \E r \in Pair :
    \/ VerifyIdTokenReturn(r)
    \/ DbHistoryReturn(r)
    \/ DbDeleteReturn(r)
    \/ DbInsertReturn(r)

SpecSilent == Init /\ [][Next]_vars /\ WF_vars(ProviderOrDbReturn)

(***************************************************************************)
(* The steps of the browser.                                               *)
(***************************************************************************)
\* the <input type="file"> changes: "Upload Image" was clicked, a file picked
SelectFile(file) ==
  /\ ui.mounted /\ ~ui.isUploading /\ ~ui.isCameraActive
  /\ ui' = handleImageSelect(ui, file)
  /\ UNCHANGED <<host, users, analyses, reqs, tmpFiles, now, issued, dash>>

\* "Use Camera" / "Stop Camera" / "Take Photo" is clicked
ClickCamera ==
  /\ ui.mounted /\ ~ui.isUploading /\ ui.cam = "idle"
  /\ HasDialog(ui.component) => ~ui.isCameraActive
  /\ IF ui.isCameraActive
     THEN ui' = [Render(stopCamera(ui)) EXCEPT !.wanted = FALSE]
     ELSE \E supported \in BOOLEAN :
            ui' = startCamera([ui EXCEPT !.wanted = TRUE, !.device = "-"],
                              supported)
  /\ UNCHANGED <<host, users, analyses, reqs, tmpFiles, now, issued, dash>>

\* the call awaited by startCamera / handleCameraCapture returns
CameraResume ==
  /\ ui.cam # "idle"
  /\ \E ok \in BOOLEAN :
       /\ (ok /\ ui.cam \in {"permission", "stream"}) => CanObtain(ui)
       /\ ui' = cameraStep(ui, ok)
  /\ UNCHANGED <<host, users, analyses, reqs, tmpFiles, now, issued, dash>>

\* "Capture Image" / "Capture": the frame is drawn and canvas.toBlob called
ClickCapture ==
  /\ HasVideo(ui) /\ ui.blob = "none"
  /\ ui' = [ui EXCEPT !.blob = IF ui.srcObject # 0 THEN "frame" ELSE "empty"]
  /\ UNCHANGED <<host, users, analyses, reqs, tmpFiles, now, issued, dash>>

\* the callback of canvas.toBlob: null for a canvas without pixels
ToBlobCallback ==
  /\ ui.blob # "none"
  /\ LET u == [ui EXCEPT !.blob = "none"]
         picked == IF ui.blob = "frame"
                   THEN handleImageSelect(u, File("image", "jpeg", 1024))
                   ELSE u
     IN ui' = IF HasDialog(ui.component)
              THEN Render([(IF picked.streamRef # 0
                            THEN StopTracks(picked, picked.streamRef)
                            ELSE picked)
                           EXCEPT !.isCameraActive = FALSE, !.wanted = FALSE])
              ELSE IF ui.blob = "frame"
              THEN [Render(stopCamera(picked)) EXCEPT !.wanted = FALSE]
              ELSE u
  /\ UNCHANGED <<host, users, analyses, reqs, tmpFiles, now, issued, dash>>

\* "Cancel" of the camera dialog: setShowCamera(false)
ClickCancel ==
  /\ HasDialog(ui.component) /\ HasVideo(ui)
  /\ ui' = Render([ui EXCEPT !.isCameraActive = FALSE, !.wanted = FALSE])
  /\ UNCHANGED <<host, users, analyses, reqs, tmpFiles, now, issued, dash>>

\* "Analyze Image" is clicked: handleAnalyze up to await fetch(...)
ClickAnalyze ==
  /\ ui.mounted /\ ui.previewUrl /\ ~ui.isCameraActive /\ ~ui.isUploading
  /\ reqs[1].pc = "idle" /\ dash.del = "idle"
  /\ ReadsClock(version) => now < MaxTime
  /\ IF ~ui.selectedImage.present
     THEN /\ ui' = Toast(ui, "No Image Selected")
          /\ UNCHANGED reqs
     ELSE \E net \in {"server", "down", "gateway"} :
            /\ ui' = [ui EXCEPT !.isUploading = TRUE, !.progress = 50,
                                !.up = "fetch", !.net = net, !.status = 0]
            /\ reqs' = IF net = "server"
                       THEN [reqs EXCEPT ![1] =
                               Arrived(Fetched("POST", ui.selectedImage, 0))]
                       ELSE reqs
  /\ UNCHANGED <<host, users, analyses, tmpFiles, now, issued, dash>>

\* the call awaited by handleAnalyze returns: fetch with the server's
\* response, with a gateway's 502 page or with a network error, or
\* response.json()
UploadResume ==
  /\ ui.up # "idle"
  /\ CASE ui.up = "fetch" /\ ui.net = "server" ->
            /\ Done(reqs[1]) /\ reqs[1].ep = "POST"
            /\ ui' = responded(ui, reqs[1].status)
            /\ reqs' = [reqs EXCEPT ![1] = IdleReq]
       [] ui.up = "fetch" /\ ui.net = "gateway" ->
            /\ ui' = responded(ui, 502)
            /\ UNCHANGED reqs
       [] ui.up = "fetch" /\ ui.net = "down" ->
            /\ ui' = analyzeFailed(ui, "Analysis Failed")
            /\ UNCHANGED reqs
       [] ui.up = "errjson" ->
            /\ ui' = analyzeFailed(ui, "Analysis Failed")
            /\ UNCHANGED reqs
       [] OTHER ->
            /\ ui' = analyzed(ui)
            /\ UNCHANGED reqs
  /\ UNCHANGED <<host, users, analyses, tmpFiles, now, issued, dash>>

\* the page is left: the component unmounts and its effect is cleaned up
Unmount ==
  /\ ui.mounted
  /\ ui' = Render([cleanup(ui) EXCEPT !.mounted = FALSE])
  /\ UNCHANGED <<host, users, analyses, reqs, tmpFiles, now, issued, dash>>

\* the trash button of a card: handleDelete up to await fetch(...)
ClickDelete(id) ==
  /\ ui.mounted /\ id \in dash.cards /\ dash.del = "idle"
  /\ "DELETE" \in Routed(version)
  /\ reqs[1].pc = "idle" /\ ui.up = "idle"
  /\ \E net \in {"server", "down"} :
       /\ dash' = [dash EXCEPT !.del = "fetch", !.net = net, !.id = id,
                               !.status = 0, !.log = ""]
       /\ reqs' = IF net = "server"
                  THEN [reqs EXCEPT ![1] = Arrived(Fetched("DELETE", NoFile, id))]
                  ELSE reqs
  /\ UNCHANGED <<host, users, analyses, tmpFiles, now, issued, ui>>

\* the fetch awaited by handleDelete returns or throws
DeleteResume ==
  /\ dash.del = "fetch"
  /\ IF dash.net = "server"
     THEN /\ Done(reqs[1]) /\ reqs[1].ep = "DELETE"
          /\ dash' = [dash EXCEPT !.del = "idle", !.net = "-",
                                  !.status = reqs[1].status]
          /\ reqs' = [reqs EXCEPT ![1] = IdleReq]
     ELSE /\ dash' = [dash EXCEPT !.del = "idle", !.net = "-",
                                  !.log = "Failed to delete analysis:"]
          /\ UNCHANGED reqs
  /\ UNCHANGED <<host, users, analyses, tmpFiles, now, issued, ui>>

\* the page of a signed-in user against each router: the table holds a row
\* of the user and a row of somebody else, and the Dashboard lists the
\* user's rows
InitClient ==
  /\ version \in Versions
  /\ users = UIDs
  /\ analyses = IF HasDb(version)
                THEN {StartRow(1, SignedIn), StartRow(2, "uB")} ELSE {}
  /\ reqs = [r \in Pair |-> IF r = 1 THEN IdleReq ELSE OffReq]
  /\ boot = Listening
  /\ tmpFiles = {}
  /\ now = 0
  /\ issued = [once |-> {}, twice |-> {}]
  /\ ui \in {ImageUpload(c) : c \in Components}
  /\ dash = Dashboard({row.id : row \in {x \in analyses : x.userId = SignedIn}})

\* the steps of the browser, and the steps of the server that a request
\* sent without credentials reaches
NextClient ==
  \/ \E file \in PickableFiles : SelectFile(file)
  \/ ClickCamera
  \/ CameraResume
  \/ ClickCapture
  \/ ToBlobCallback
  \/ ClickCancel
  \/ ClickAnalyze
  \/ UploadResume
  \/ Unmount
  \/ \E id \in Ids : ClickDelete(id)
  \/ DeleteResume
  \/ \E r \in Pair : InferenceReturn(r) \/ DbInsertReturn(r) \/ Tick

\* what happens without the user: awaited calls return, the server works
Returns ==
  \/ CameraResume
  \/ ToBlobCallback
  \/ UploadResume
  \/ DeleteResume
  \/ \E r \in Pair : InferenceReturn(r) \/ DbInsertReturn(r) \/ Tick

SpecClient == InitClient /\ [][NextClient]_vars /\ WF_vars(Returns)

(***************************************************************************)
(* Properties                                                              *)
(***************************************************************************)
Range(seq) == {seq[i] : i \in 1..Len(seq)}

\* the request carries no usable credential: no header, no bearer token,
\* a token the provider rejects, or a provider call that fails
Unauthenticated(q) ==
  \/ ~q.hdr.present
  \/ q.auth \in {"missing", "rejected", "error"}

NoDownstreamCall(q) ==
  q.nInfer = 0 /\ q.nDbRead = 0 /\ q.nDbInsert = 0 /\ q.nDbDelete = 0

\* C1: a request of any of the three endpoints without a header, with a
\* rejected token or with a failed provider call is answered
\* 401 {error: "Unauthorized"} and makes no inference call and no database
\* read, insert or delete.  (Uploads the middleware aborts with 413 before
\* any route are left out of the statement.)
C1_AuthGate ==
  \A r \in Slots :
    (Started(reqs[r]) /\ Unauthenticated(reqs[r])
       /\ ~fileUploadAborts(reqs[r])) =>
      /\ NoDownstreamCall(reqs[r])
      /\ Done(reqs[r]) =>
           reqs[r].status = 401 /\ reqs[r].error = "Unauthorized"

\* C2: a row leaves the table only in the database step of a DELETE whose
\* authenticated uid is the row's userId and whose :id is the row's id.
C2_DeleteOnlyByOwner ==
  [][\A row \in analyses :
       row \notin analyses' =>
         \E r \in Slots :
           /\ reqs[r].pc = "db" /\ reqs[r].ep = "DELETE"
           /\ reqs[r].auth = "ok"
           /\ reqs[r].uid = row.userId
           /\ reqs[r].idParam = row.id
           /\ reqs'[r].pc # "db"]_vars

\* C2's case: user B's DELETE of a row of user A was answered and the row
\* is still there.
C2_Witness ==
  \E row \in analyses :
    /\ Done(reqs[1]) /\ reqs[1].ep = "DELETE" /\ reqs[1].status = 204
    /\ reqs[1].idParam = row.id
    /\ reqs[1].uid # row.userId

\* C3: DELETE answers 204 only when a row of the caller was deleted.
C3_NoContentOnlyWhenDeleted ==
  \A r \in Slots :
    (Done(reqs[r]) /\ reqs[r].ep = "DELETE" /\ reqs[r].status = 204) =>
      reqs[r].nDeleted >= 1

\* C4: a history answer holds exactly the stored rows whose userId is the
\* caller's resolved identity.
C4_HistoryOfCallerOnly ==
  [][\A r \in Slots :
       (reqs[r].pc = "db" /\ reqs[r].ep = "GET" /\ Done(reqs'[r])
          /\ reqs'[r].status = 200) =>
         Range(reqs'[r].rows) =
           {row \in analyses : row.userId = reqs[r].uid}]_vars

\* C5: within a history answer the rows of one user come most recent
\* first.
C5_HistoryMostRecentFirst ==
  \A r \in Slots :
    (Done(reqs[r]) /\ reqs[r].ep = "GET" /\ reqs[r].status = 200) =>
      \A i, j \in 1..Len(reqs[r].rows) :
        (i < j /\ reqs[r].rows[i].userId = reqs[r].rows[j].userId) =>
          reqs[r].rows[i].timestamp >= reqs[r].rows[j].timestamp

DbUnreachable(q) == q.error = "connect ECONNREFUSED"

\* the request passed auth and intake, its inference call returned a text,
\* and the database was reachable for its insert
Persisting(q) ==
  /\ Done(q) /\ q.ep = "POST" /\ HasDb(version)
  /\ q.completion = "text" /\ q.nDbInsert = 1
  /\ ~DbUnreachable(q)

RowMeetsConstraints(row) ==
  /\ row.userId \in users
  /\ row.result # "" /\ row.severity # "" /\ row.explanation # <<>>
  /\ DecimalFits(row.confidence)

\* C6: such a request stores exactly one row, which meets the constraints
\* of the table, and is answered 200 with that row.
C6_InsertsOneRow ==
  \A r \in Slots :
    Persisting(reqs[r]) =>
      /\ reqs[r].status = 200
      /\ Len(reqs[r].rows) = 1
      /\ RowMeetsConstraints(reqs[r].rows[1])

\* C7: when the insert of a verdict with result r and confidence c is
\* answered, the table holds a row of that user with r and with c rounded
\* to three decimals, which that user's history returns.
C7_RoundTrip ==
  [][\A r \in Slots :
       (/\ reqs[r].pc = "db" /\ reqs[r].ep = "POST"
        /\ Done(reqs'[r]) /\ ~DbUnreachable(reqs'[r])
        /\ reqs[r].vals["result"].k = "str"
        /\ IsNumeric(reqs[r].vals["confidence"])
        /\ DecimalFits(Round3(ToNumeric(reqs[r].vals["confidence"])))) =>
         \E row \in analyses' :
           /\ row.userId = reqs[r].vals["userId"].s
           /\ row.result = reqs[r].vals["result"].s
           /\ row.confidence = Round3(ToNumeric(reqs[r].vals["confidence"]))]_vars

IntakeOk(file) ==
  /\ file.present
  /\ file.mimetype \in validTypes
  /\ file.size <= MaxFileSize

\* the request has reached the end of the handler's intake checks
PastIntake(q) ==
  /\ q.ep = "POST" /\ q.pc \in {"infer", "db", "done"}
  /\ version = "routes_ts" => q.auth = "ok"

\* C8: an upload is accepted (the inference call is made) iff a file of an
\* allowed type and size is present; otherwise the answer is 4xx with a
\* message and neither the inference API nor the database is called.
C8_Intake ==
  \A r \in Slots :
    PastIntake(reqs[r]) =>
      IF IntakeOk(reqs[r].file)
      THEN reqs[r].nInfer = 1
      ELSE /\ reqs[r].nInfer = 0 /\ reqs[r].nDbInsert = 0
           /\ Done(reqs[r]) =>
                reqs[r].status \in 400..499 /\ reqs[r].error # ""

\* what the handler made of the completion: the values handed to the
\* insert, or the verdict answered where nothing is stored
Yielded(q) ==
  IF HasDb(version)
  THEN [result |-> q.vals["result"], confidence |-> q.vals["confidence"],
        explanation |-> q.vals["explanation"]]
  ELSE q.verdict

\* C9: a completion text that is not JSON yields "Concerning" iff it
\* contains "Concerning" (else "Normal"), confidence 0.95 and the text
\* itself as explanation.
C9_ParserFallback ==
  \A r \in Slots :
    (/\ reqs[r].ep = "POST" /\ reqs[r].completion = "text"
     /\ ~JsonParses(reqs[r].text)
     /\ reqs[r].pc = "db" \/ (Done(reqs[r]) /\ reqs[r].status = 200)) =>
      /\ Yielded(reqs[r]).result =
           Str(IF \E i \in 1..Len(reqs[r].text) :
                    reqs[r].text[i].v = "Concerning"
               THEN "Concerning" ELSE "Normal")
      /\ IsNumeric(Yielded(reqs[r]).confidence)
      /\ ToNumeric(Yielded(reqs[r]).confidence) = 9500
      /\ Yielded(reqs[r]).explanation = Txt(reqs[r].text)

\* the value written after a key of an object text
Written(text, key) ==
  ScalarOf(text[(CHOOSE i \in 1..Len(text) :
                   text[i] = Quoted(key) /\ i % 4 = 2) + 2])

IsFullVerdict(text) ==
  /\ IsObjectText(text)
  /\ \A key \in {"result", "confidence", "explanation"} :
       \E i \in 1..Len(text) : text[i] = Quoted(key) /\ i % 4 = 2

\* the verdict a request was answered with
Answer(q) ==
  IF HasDb(version)
  THEN [result |-> Str(q.rows[1].result),
        confidence |-> Num(q.rows[1].confidence * 10),
        explanation |-> Txt(q.rows[1].explanation)]
  ELSE q.verdict

\* C10: a completion that is a JSON object with result, confidence and
\* explanation is answered (and stored) with exactly those three values.
C10_ParsedVerbatim ==
  \A r \in Slots :
    (/\ Done(reqs[r]) /\ reqs[r].ep = "POST"
     /\ reqs[r].completion = "text" /\ IsFullVerdict(reqs[r].text)
     /\ ~DbUnreachable(reqs[r])) =>
      /\ reqs[r].status = 200
      /\ HasDb(version) => Len(reqs[r].rows) = 1 /\ reqs[r].rows[1] \in analyses
      /\ Answer(reqs[r]).result = Written(reqs[r].text, "result")
      /\ Answer(reqs[r]).confidence = Written(reqs[r].text, "confidence")
      /\ ToAtoms(Answer(reqs[r]).explanation) =
           ToAtoms(Written(reqs[r].text, "explanation"))


\* the request failed on what the completion text held: reading a property
\* of the parsed value threw, or a column filled from the completion was
\* refused by the database
FormatFault(q) ==
  \/ q.error = "Cannot read properties of null"
  \/ /\ q.error = "violates a constraint of analyses"
     /\ version = "part_001"
     /\ \/ \E c \in {"result", "confidence", "explanation"} :
             q.vals[c].k \in {"undef", "null"}
        \/ ~IsNumeric(q.vals["confidence"])
        \/ ~DecimalFits(Round3(ToNumeric(q.vals["confidence"])))

\* C11: once the inference call has returned a non-empty text, the request
\* does not fail on the format of the text, whether it is no JSON, a JSON
\* value that is no object, or an object without the three keys.
C11_FormatRobust ==
  \A r \in Slots :
    (Done(reqs[r]) /\ reqs[r].ep = "POST" /\ reqs[r].completion = "text") =>
      ~FormatFault(reqs[r])


C13_IdentityFromToken ==
  \A r \in Slots :
    reqs[r].pc = "db" =>
      /\ reqs[r].auth = "ok"
      /\ reqs[r].uid # ""
      /\ reqs[r].uid = TokenUid(BearerToken(reqs[r].hdr))
      /\ reqs[r].ep = "POST" => reqs[r].vals["userId"] = Str(reqs[r].uid)


\* the step in which the database operation of request r fails
DbFails(r) ==
  /\ reqs[r].pc = "db" /\ Done(reqs'[r])
  /\ reqs'[r].status \notin {200, 204}

\* C14: when the database operation of a request fails, the request is
\* answered with a 5xx status and the table is left as it was.
C14_DbFailure ==
  [][\A r \in Slots :
       DbFails(r) =>
         /\ reqs'[r].status \in 500..599
         /\ analyses' = analyses]_vars


\* C15: a request whose inference call failed, or returned no content or
\* a content block that is no text, is answered 4xx when the upstream
\* reported status 400 and 5xx in every other case.
C15_InferenceErrorMapping ==
  \A r \in Slots :
    (/\ Done(reqs[r]) /\ reqs[r].ep = "POST"
     /\ reqs[r].completion \in {"err400", "err500", "empty", "nontext"}) =>
      IF reqs[r].completion = "err400"
      THEN reqs[r].status \in 400..499
      ELSE reqs[r].status \in 500..599


\* C16: when one of the three names is missing at process start the server
\* never listens, and the failure reports every missing name.
C16_StartupEnumeratesMissing ==
  boot.env # EnvNames =>
    /\ boot.pc # "listening"
    /\ boot.pc \in {"crashed", "exited"} => boot.reported = EnvNames \ boot.env


\* C17: a temporary file written for a request's upload is eventually
\* removed once the request has been answered.
C17_TempFilesRemoved ==
  \A r \in Slots :
    (r \in tmpFiles /\ Done(reqs[r])) ~> (r \notin tmpFiles)

\* C18: no id is answered twice, and no two stored rows share an id.
C18_DistinctIds ==
  /\ issued.twice = {}
  /\ \A a, b \in analyses : a.id = b.id => a = b


\* the inference call of the request returned a completion
Completed(q) ==
  q.ep = "POST" /\ q.nInfer = 1 /\ q.completion \in {"text", "nontext"}

\* C19: a request issues its insert only after its own inference call has
\* returned a completion, and a row enters the table only in the insert
\* step of such a request.
C19_InsertAfterInference ==
  [][/\ \A r \in Pair : reqs'[r].nDbInsert >= 1 => Completed(reqs'[r])
     /\ \A row \in analyses' \ analyses :
          \E r \in Pair : reqs[r].pc = "db" /\ Completed(reqs[r])]_vars

\* C19's case: a request whose inference call failed was answered, and it
\* issued no insert.
C19_Witness ==
  /\ Done(reqs[1]) /\ reqs[1].ep = "POST" /\ HasDb(version)
  /\ reqs[1].completion \in {"err400", "err500", "empty"}
  /\ reqs[1].nInfer = 1 /\ reqs[1].nDbInsert = 0


\* C20: the media type sent to the inference API with the image is the
\* MIME type of the uploaded file, for each of the four accepted types.
C20_MediaTypeOfUpload ==
  \A r \in Slots :
    (/\ reqs[r].ep = "POST" /\ reqs[r].nInfer = 1
     /\ reqs[r].file.mimetype \in validTypes) =>
      reqs[r].mediaType = reqs[r].file.mimetype


\* C21: every POST that has arrived is eventually answered, whether or not
\* the inference API replies.
C21_PostAnswered ==
  \A r \in Slots :
    (reqs[r].ep = "POST" /\ Started(reqs[r])) ~> Done(reqs[r])


\* C22: a step of any request leaves the fields of every row that stays in
\* the table as they were: the table changes only by whole rows entering
\* and whole rows leaving.
C22_RowsNeverUpdated ==
  [][\A row \in analyses : \A new \in analyses' :
       new.id = row.id => new = row]_vars

\* C22's case: a DELETE removed a row and other rows are still stored.
C22_Witness ==
  /\ Done(reqs[1]) /\ reqs[1].ep = "DELETE" /\ reqs[1].nDeleted = 1
  /\ analyses # {}


\* C28: a request that has passed the upload middleware is sent no
\* response while verifyAuth or its handler is still at work, and exactly
\* one by the time the handler has ended, whichever path it took.
C28_ExactlyOneResponse ==
  \A r \in Slots :
    (Started(reqs[r]) /\ ~fileUploadAborts(reqs[r])) =>
      reqs[r].nRes = IF Done(reqs[r]) THEN 1 ELSE 0

\* C28's case: a POST that went through the inference call and the insert
\* was answered with the failure of the insert.
C28_Witness ==
  /\ Done(reqs[1]) /\ reqs[1].ep = "POST"
  /\ reqs[1].nInfer = 1 /\ reqs[1].nDbInsert = 1
  /\ reqs[1].status \in {400, 500} /\ reqs[1].nRes = 1

(***************************************************************************)
(* Properties of the browser                                               *)
(***************************************************************************)
\* a request of the browser that the server has in hand
InHand(q) == q.pc \notin {"idle", "off"}

\* C23: every request the page sends to POST /api/analysis or to
\* DELETE /api/analysis/:id carries "Authorization: Bearer <ID token of the
\* signed-in user>", so that verifyAuth does not answer it 401
C23_ClientSendsBearer ==
  \A r \in Slots :
    (InHand(reqs[r]) /\ reqs[r].ep \in {"POST", "DELETE"}) =>
      /\ reqs[r].hdr = Header(<<"Bearer ", IdToken>>)
      /\ ~(Done(reqs[r]) /\ reqs[r].status = 401)

\* C24: when "Use Camera" has been clicked on a mounted component, then,
\* unless the browser, the user or the device refuses a call of the camera
\* API (or the page is left), isCameraActive eventually becomes true
C24_CameraBecomesActive ==
  (ui.mounted /\ ui.wanted)
    ~> (ui.isCameraActive \/ ui.device = "refused" \/ ~ui.mounted)

\* C25: once the camera is closed (no start in progress, the camera view
\* not shown, no capture pending) or the component is unmounted and its
\* handlers have run out, no stream the component obtained is still live
C25_StreamsStopped ==
  (ui.cam = "idle" /\ ui.blob = "none" /\ ~ui.isCameraActive) => ui.live = {}

\* the step in which handleAnalyze ends
Settles == ui.up # "idle" /\ ui'.up = "idle"

\* C26: handleAnalyze ends with isUploading = false and progress = 0 on
\* every path; selectedImage and previewUrl are cleared when the response
\* was 2xx and its body was read, and are left as they were otherwise
C26_AnalyzeSettles ==
  [][Settles =>
       /\ ~ui'.isUploading /\ ui'.progress = 0
       /\ IF ui.up = "json"
          THEN ui'.selectedImage = NoFile /\ ~ui'.previewUrl
          ELSE /\ ui'.selectedImage = ui.selectedImage
               /\ ui'.previewUrl = ui.previewUrl]_vars

\* an upload answered 401 with a JSON body has ended as a failure and the
\* selection is still there
C26_Witness ==
  /\ ui.up = "idle" /\ ui.status = 401 /\ ui.toast = "Analysis Failed"
  /\ ~ui.isUploading /\ ui.progress = 0
  /\ ui.selectedImage.present /\ ui.previewUrl

\* C27: while an upload is in flight, the selected image is not replaced,
\* the camera view does not open, no capture begins and no camera start
\* begins
C27_UploadInFlight ==
  [][(ui.mounted /\ ui.isUploading /\ ui'.isUploading) =>
       /\ ui'.selectedImage = ui.selectedImage
       /\ ui'.isCameraActive => ui.isCameraActive
       /\ ui'.blob # "none" => ui.blob # "none"
       /\ ui.cam = "idle" => ui'.cam = "idle"]_vars

\* the server turned the upload away at intake: by the upload middleware
\* or by the handler's validation, before any inference call
RejectedAtIntake(q) ==
  Done(q) /\ q.ep = "POST" /\ q.nInfer = 0 /\ q.status \in {400, 413}

\* C29: a file that handleImageSelect accepted, uploaded by handleAnalyze,
\* is not turned away by the server's intake
C29_ServerAcceptsClientFiles ==
  \A r \in Slots :
    (InHand(reqs[r]) /\ reqs[r].ep = "POST"
       /\ reqs[r].file.mimetype \in validTypesOfClient
       /\ reqs[r].file.size <= maxSize)
      => ~RejectedAtIntake(reqs[r])

\* handleDelete has ended and the server answered its DELETE with status s
DeleteAnswered(s) == dash.del = "idle" /\ dash.id # 0 /\ dash.status = s

\* C30: once a DELETE sent from a card has been answered 204, the Dashboard
\* eventually stops listing that analysis; and a DELETE answered with a
\* failure status leaves a report of the failure
C30_DeleteShown ==
  /\ (DeleteAnswered(204) ~> dash.id \notin dash.cards)
  /\ [](\A s \in {401, 404, 500} : DeleteAnswered(s) => dash.log # "")

=============================================================================
